---- MODULE Spec2Model ----
(***************************************************************************)
(* A model of the ADSimPeaks frame synthesis engine: the parameter write   *)
(* handlers (writeInt32 / writeFloat64), the acquisition thread            *)
(* (ADSimPeaksTask) and the frame compositor (computeDataT) with the peak  *)
(* kernels it calls.                                                       *)
(*                                                                         *)
(* Doubles are modelled as exact rationals <<n, d>> (d >= 1, lowest        *)
(* terms).  The element types of the NDArray keep their width: a double    *)
(* stored into an integer element is truncated toward zero, and a value    *)
(* outside the element range is undefined behaviour whose outcome depends  *)
(* on the build (variable ubMode).                                         *)
(***************************************************************************)
EXTENDS Integers, Sequences, FiniteSets, TLC

(***************************************************************************)
(* Bounds of the model                                                     *)
(***************************************************************************)
\* largest SizeX / SizeY the driver is configured with (constructor args)
MaxSizeBound == 2
\* largest frame count written to ADNumImages
MaxNumImages == 2
\* number of timed waits that may time out in one run
MaxTimeouts == 2
\* number of start requests the clients issue
MaxStarts == 2
\* number of frames of the long integrating run
MaxIntegrateFrames == 128
\* number of frames composed in a row by the compositor specification
MaxComposeFrames == 2

(***************************************************************************)
(* Rational arithmetic (the model of epicsFloat64)                         *)
(***************************************************************************)
Abs(n) == IF n < 0 THEN -n ELSE n

RECURSIVE GCD(_, _)
GCD(a, b) == IF b = 0 THEN a ELSE GCD(b, a % b)

Rat(n, d) ==
    LET s == IF d < 0 THEN -1 ELSE 1
        g == GCD(Abs(n), Abs(d))
    IN  IF n = 0 THEN <<0, 1>> ELSE <<(s * n) \div g, (s * d) \div g>>

R(n) == <<n, 1>>
RAdd(a, b) == Rat(a[1] * b[2] + b[1] * a[2], a[2] * b[2])
RSub(a, b) == Rat(a[1] * b[2] - b[1] * a[2], a[2] * b[2])
RMul(a, b) == Rat(a[1] * b[1], a[2] * b[2])
RDiv(a, b) == Rat(a[1] * b[2], a[2] * b[1])
RLt(a, b) == a[1] * b[2] < b[1] * a[2]
RLe(a, b) == a[1] * b[2] <= b[1] * a[2]
RMax(a, b) == IF RLt(a, b) THEN b ELSE a
RMin(a, b) == IF RLt(b, a) THEN b ELSE a
\* conversion of a double to an integer: truncation toward zero
RTrunc(a) == IF a[1] >= 0 THEN a[1] \div a[2] ELSE -((-a[1]) \div a[2])

RECURSIVE RPow(_, _)
RPow(a, k) == IF k = 0 THEN R(1) ELSE RMul(a, RPow(a, k - 1))

\* exp(1.0), to the precision the model's integers allow
ExpNum == 19
ExpDen == 7
\* pow(exp(1.0), y) for an integral y
PowE(y) ==
    LET k == RTrunc(y)
    IN  IF k >= 0 THEN RPow(<<ExpNum, ExpDen>>, k)
        ELSE RDiv(R(1), RPow(<<ExpNum, ExpDen>>, -k))

(***************************************************************************)
(* Element types of the NDArray                                            *)
(***************************************************************************)
IntTypes == {"NDInt8", "NDUInt8", "NDInt16", "NDUInt16"}
FloatTypes == {"NDFloat32", "NDFloat64"}
AllTypes == IntTypes \cup FloatTypes

TypeBits(T) == IF T \in {"NDInt8", "NDUInt8"} THEN 8 ELSE 16
TypeSigned(T) == T \in {"NDInt8", "NDInt16"}
TypeModulus(T) == 2 ^ TypeBits(T)
TypeMin(T) == IF TypeSigned(T) THEN -(2 ^ (TypeBits(T) - 1)) ELSE 0
TypeMax(T) == IF TypeSigned(T) THEN 2 ^ (TypeBits(T) - 1) - 1 ELSE TypeModulus(T) - 1

\* integer -> integer element conversion: modulo 2^w
WrapInt(n, T) == ((n - TypeMin(T)) % TypeModulus(T)) + TypeMin(T)
SaturateInt(n, T) == IF n < TypeMin(T) THEN TypeMin(T)
                     ELSE IF n > TypeMax(T) THEN TypeMax(T) ELSE n

\* double -> element conversion (static_cast<T>(double), or the implicit
\* conversion of a compound assignment).  Out of range is undefined
\* behaviour: the build either wraps or saturates (ub).
NarrowDouble(v, T, ub) ==
    IF T \in FloatTypes THEN v
    ELSE LET t == RTrunc(v)
         IN  IF t >= TypeMin(T) /\ t <= TypeMax(T) THEN R(t)
             ELSE IF ub = "wrap" THEN R(WrapInt(t, T)) ELSE R(SaturateInt(t, T))

StoreElem(a, b, T) == b

\* T + T stored back into a T element
AddElem(a, b, T) ==
    IF T \in FloatTypes THEN RAdd(a, b)
    ELSE R(WrapInt(a[1] + b[1], T))

(***************************************************************************)
(* Peak kernels (ADSimPeaksPeak)                                           *)
(***************************************************************************)
\* s_zeroCheck = 1e-12 = (1 / ZeroCheckRoot)^2
ZeroCheckRoot == 1000000

\* a double too small for the model's rationals, given in units of
\* s_zeroCheck: Small(n, d) is (n / d) * 1e-12
Small(n, d) == <<n, d, ZeroCheckRoot>>
IsSmall(v) == Len(v) = 3

\* (value > -s_zeroCheck) && (value < s_zeroCheck), computed without leaving
\* the model's integers
NearZero(v) ==
    IF IsSmall(v) THEN (v[1] > -v[2]) /\ (v[1] < v[2])
    ELSE Abs(v[1]) <= ((v[2] - 1) \div ZeroCheckRoot) \div ZeroCheckRoot

zeroCheckClosed(value) ==
    IF (IF IsSmall(value) THEN value[1] >= -value[2] /\ value[1] <= value[2]
        ELSE NearZero(value))
    THEN R(1) ELSE value

zeroCheck(value) == IF NearZero(value) THEN R(1) ELSE value

\* ADSimPeaksData::setBinX / setBinY: the bin is an epicsInt32
setBin(value) == RTrunc(value)

computeSquareClosed(pk, bin) ==
    LET fwhm == RMax(R(1), pk.fwhmX)
        half == RDiv(fwhm, R(2))
    IN  IF bin >= RTrunc(RSub(pk.posX, half)) /\ bin <= RTrunc(RAdd(pk.posX, half))
        THEN R(1) ELSE R(0)

computeSquare(pk, bin) ==
    LET fwhm == RMax(R(1), pk.fwhmX)
        half == RDiv(fwhm, R(2))
    IN  IF bin > RTrunc(RSub(pk.posX, half)) /\ bin <= RTrunc(RAdd(pk.posX, half))
        THEN R(1) ELSE R(0)

computeTriangle(pk, bin) ==
    LET fwhm == RMax(R(1), pk.fwhmX)
        b0 == RDiv(R(1), fwhm)
        b == IF bin <= RTrunc(pk.posX) THEN b0 ELSE RMul(b0, R(-1))
    IN  RMax(R(0), RAdd(R(1), RMul(b, RSub(R(bin), pk.posX))))

computeSquare2DClosed(pk, xbin, ybin) ==
    LET xh == RDiv(RMax(R(1), pk.fwhmX), R(2))
        yh == RDiv(RMax(R(1), pk.fwhmY), R(2))
    IN  IF /\ xbin >= RTrunc(RSub(pk.posX, xh))
           /\ xbin <= RTrunc(RAdd(pk.posX, xh))
           /\ ybin >= RTrunc(RSub(pk.posY, yh))
           /\ ybin <= RTrunc(RAdd(pk.posY, yh))
        THEN R(1) ELSE R(0)

computeSquare2D(pk, xbin, ybin) ==
    LET xf == RMax(R(1), pk.fwhmX)
        yf == RMax(R(1), pk.fwhmY)
        xh == RDiv(xf, R(2))
        yh == RDiv(yf, R(2))
    IN  IF /\ xbin > RTrunc(RSub(pk.posX, xh))
           /\ xbin <= RTrunc(RAdd(pk.posX, xh))
           /\ ybin > RTrunc(RSub(pk.posY, yh))
           /\ ybin <= RTrunc(RAdd(pk.posY, yh))
        THEN R(1) ELSE R(0)

compute1DAnyTag(pk, type, bin) ==
    [ok |-> TRUE, val |-> IF type = "none" THEN R(0) ELSE computeSquare(pk, bin)]

\* compute1D / compute2D: [ok |-> e_status::success, val |-> result]
compute1D(pk, type, bin) ==
    CASE type = "none" -> [ok |-> TRUE, val |-> R(0)]
      [] type = "square" -> [ok |-> TRUE, val |-> computeSquare(pk, bin)]
      [] type = "triangle" -> [ok |-> TRUE, val |-> computeTriangle(pk, bin)]
      [] OTHER -> [ok |-> FALSE, val |-> R(0)]

compute2D(pk, type, xbin, ybin) ==
    CASE type = "none" -> [ok |-> TRUE, val |-> R(0)]
      [] type = "square" -> [ok |-> TRUE, val |-> computeSquare2D(pk, xbin, ybin)]
      [] OTHER -> [ok |-> FALSE, val |-> R(0)]

(***************************************************************************)
(* The frame compositor (ADSimPeaks::computeDataT)                         *)
(***************************************************************************)
\* Reset the array data if we need to
ResetAlways(data, integrate, needReset) == [i \in DOMAIN data |-> R(0)]

ResetOnStartOnly(data, integrate, needReset) ==
    IF needReset THEN [i \in DOMAIN data |-> R(0)] ELSE data

ResetData(data, integrate, needReset) ==
    IF integrate = 0 \/ needReset THEN [i \in DOMAIN data |-> R(0)] ELSE data

\* one axis of the background profile at coordinate c
BackgroundTerm(bg, c) ==
    LET d == RSub(R(c), bg.sh)
    IN  CASE bg.type = "polynomial" ->
               RAdd(RAdd(bg.c0, RMul(d, bg.c1)),
                    RAdd(RMul(RPow(d, 2), bg.c2), RMul(RPow(d, 3), bg.c3)))
          [] bg.type = "exponential" ->
               RAdd(bg.c0, RMul(bg.c1, PowE(RMul(d, bg.c2))))
          [] OTHER -> R(0)

BinX(bin, sizeX) == bin % sizeX
BinYModulo(bin, sizeX) == bin % sizeX
BinY(bin, sizeX) == bin \div sizeX

AddBackground(data, T, ub, is2d, sizeX, bgX, bgY) ==
    [bin \in DOMAIN data |->
        LET bg_x == BackgroundTerm(bgX, BinX(bin, sizeX))
            bg_y == IF is2d THEN BackgroundTerm(bgY, BinY(bin, sizeX)) ELSE R(0)
        IN  NarrowDouble(RAdd(data[bin], RAdd(bg_x, bg_y)), T, ub)]

\* one peak slot, 1D.  st = [data, scale]: scale_factor outlives the slot.
AddPeak1D(st, pk, T, ub, minX, maxX) ==
    LET rmax == compute1D(pk, pk.type1d, setBin(pk.posX))
        scale == IF rmax.ok THEN RDiv(pk.amp, zeroCheck(rmax.val)) ELSE st.scale
    IN  [scale |-> scale,
         data |-> [bin \in DOMAIN st.data |->
            IF bin >= minX /\ bin <= maxX
            THEN LET r == compute1D(pk, pk.type1d, bin)
                 IN  IF r.ok
                     THEN AddElem(st.data[bin],
                                  NarrowDouble(RMul(r.val, scale), T, ub), T)
                     ELSE st.data[bin]
            ELSE st.data[bin]]]

AddPeak2D(st, pk, T, ub, sizeX, minX, maxX, minY, maxY) ==
    LET rmax == compute2D(pk, pk.type2d, setBin(pk.posX), setBin(pk.posY))
        scale == IF rmax.ok THEN RDiv(pk.amp, zeroCheck(rmax.val)) ELSE st.scale
    IN  [scale |-> scale,
         data |-> [bin \in DOMAIN st.data |->
            LET bin_x == BinX(bin, sizeX)
                bin_y == BinY(bin, sizeX)
            IN  IF bin_x >= minX /\ bin_x <= maxX /\ bin_y >= minY /\ bin_y <= maxY
                THEN LET r == compute2D(pk, pk.type2d, bin_x, bin_y)
                     IN  IF r.ok
                         THEN AddElem(st.data[bin],
                                      NarrowDouble(RMul(r.val, scale), T, ub), T)
                         ELSE st.data[bin]
                ELSE st.data[bin]]]

\* the slot whose min / max boundaries are read for peak slot k
BoundarySlot(k) == 0

\* the peak loop over slots k .. n-1
RECURSIVE AddPeaks(_, _, _, _, _, _, _, _, _)
AddPeaks(st, k, n, pks, T, ub, is2d, sizeX, sizeY) ==
    IF k >= n THEN st
    ELSE LET pk == pks[k]
             bd == pks[BoundarySlot(k)]
             no_peak == IF is2d THEN pk.type2d = "none" ELSE pk.type1d = "none"
             maxX == IF bd.maxX = 0 THEN sizeX ELSE bd.maxX
             maxY == IF bd.maxY = 0 THEN sizeY ELSE bd.maxY
             nxt == IF no_peak THEN st
                    ELSE IF is2d
                         THEN AddPeak2D(st, pk, T, ub, sizeX, bd.minX, maxX, bd.minY, maxY)
                         ELSE AddPeak1D(st, pk, T, ub, bd.minX, maxX)
         IN  AddPeaks(nxt, k + 1, n, pks, T, ub, is2d, sizeX, sizeY)

\* noise: smp[bin] is the sample drawn from m_rand_gen for the bin
AddNoise(data, T, ub, nz, smp) ==
    IF nz.type \in {"uniform", "gaussian"}
    THEN [bin \in DOMAIN data |->
            LET n0 == RMul(nz.level, smp[bin])
                n1 == IF nz.clamp # 0 THEN RMax(nz.lower, RMin(nz.upper, n0)) ELSE n0
            IN  AddElem(data[bin], NarrowDouble(n1, T, ub), T)]
    ELSE data

\* pks: the peak slots 0 .. m_maxPeaks-1
computeDataT(data, T, ub, is2d, sizeX, sizeY0, integrate, needReset, bgX, bgY, pks, nz, smp) ==
    LET sizeY == IF sizeY0 < 1 THEN 1 ELSE sizeY0
        d0 == ResetData(data, integrate, needReset)
        d1 == AddBackground(d0, T, ub, is2d, sizeX, bgX, bgY)
        d2 == AddPeaks([data |-> d1, scale |-> R(0)], 0, Cardinality(DOMAIN pks),
                       pks, T, ub, is2d, sizeX, sizeY).data
    IN  AddNoise(d2, T, ub, nz, smp)


(***************************************************************************)
(* State                                                                   *)
(***************************************************************************)
VARIABLES
    m_maxSizeX, m_maxSizeY, m_maxPeaks, \* constructor arguments
    ubMode,          \* what this build does on an out-of-range conversion
    param,           \* the parameter library, list 0
    peakParam,       \* the per-peak parameters, one list per asyn address
    m_acquiring, m_needNewArray, m_needReset,
    p_NDArray,       \* NullArray or [id, dims, dataType, data]
    m_startEvent, m_stopEvent,   \* epicsEvent: TRUE = signalled (full)
    workerLock,      \* how many times the worker thread holds the port lock
    pc, loc,         \* the worker's position and its local variables
    pool,            \* NDArrayPool: the handles that are allocated
    published,       \* what the last doCallbacksGenericPointer handed out
    hist,            \* history of the current run and buffer (not program state)
    zcValue, zcResult \* argument and return value of a call of zeroCheck

\* what no step of the driver changes
cfgVars == <<m_maxSizeX, m_maxSizeY, m_maxPeaks, ubMode, zcValue, zcResult>>
storeVars == <<param, peakParam>>
drvVars == <<m_acquiring, m_needNewArray, m_needReset, p_NDArray>>
evVars == <<m_startEvent, m_stopEvent>>
workerVars == <<pc, loc>>
poolVars == <<pool, published>>
vars == <<cfgVars, storeVars, drvVars, evVars, workerLock, workerVars, poolVars, hist>>

m_2d == m_maxSizeY > 0

ImageModes == {"Single", "Multiple", "Continuous"}

\* descriptors as computeDataT reads them from the parameter library
BgX(p) == [type |-> p.ADSPBGTypeX, c0 |-> p.ADSPBGC0X, c1 |-> p.ADSPBGC1X,
           c2 |-> p.ADSPBGC2X, c3 |-> p.ADSPBGC3X, sh |-> p.ADSPBGSHX]
BgY(p) == [type |-> p.ADSPBGTypeY, c0 |-> p.ADSPBGC0Y, c1 |-> p.ADSPBGC1Y,
           c2 |-> p.ADSPBGC2Y, c3 |-> p.ADSPBGC3Y, sh |-> p.ADSPBGSHY]
NoiseOf(p) == [type |-> p.ADSPNoiseType, level |-> p.ADSPNoiseLevel,
               clamp |-> p.ADSPNoiseClamp, lower |-> p.ADSPNoiseLower,
               upper |-> p.ADSPNoiseUpper]

\* the values the constructor gives the parameters
InitParam(maxX, maxY) ==
    [ADAcquire |-> 0, ADStatus |-> "Idle", ADAcquirePeriod |-> R(1),
     ADImageMode |-> "Continuous", ADNumImages |-> 1, ADNumImagesCounter |-> 0,
     ADSizeX |-> maxX, ADSizeY |-> maxY, NDDataType |-> "NDInt8",
     NDArrayCallbacks |-> 1,
     ADSPIntegrate |-> 0, ADSPNoiseType |-> "none", ADSPNoiseLevel |-> R(0),
     ADSPNoiseClamp |-> 0, ADSPNoiseLower |-> R(0), ADSPNoiseUpper |-> R(0),
     ADSPBGTypeX |-> "none", ADSPBGC0X |-> R(0), ADSPBGC1X |-> R(0),
     ADSPBGC2X |-> R(0), ADSPBGC3X |-> R(0), ADSPBGSHX |-> R(0),
     ADSPBGTypeY |-> "none", ADSPBGC0Y |-> R(0), ADSPBGC1Y |-> R(0),
     ADSPBGC2Y |-> R(0), ADSPBGC3Y |-> R(0), ADSPBGSHY |-> R(0)]

InitPeak ==
    [type1d |-> "none", type2d |-> "none", posX |-> R(1), posY |-> R(1),
     fwhmX |-> R(1), fwhmY |-> R(1), amp |-> R(1), cor |-> R(1),
     p1 |-> R(0), p2 |-> R(0), minX |-> 0, minY |-> 0, maxX |-> 0, maxY |-> 0]

InitLoc ==
    [arrayCallbacks |-> 0, imageMode |-> "Single", numImages |-> 0,
     imagesCounter |-> 0, dataType |-> "NDInt8", sizeX |-> 0, sizeY |-> 0,
     dims |-> <<0, 0>>, eventStatus |-> "OK"]

\* History of the current run and buffer, kept for the properties:
\* starts: start requests accepted so far; runFrames: frames composed in the
\* current run; timeouts: timed waits of the run that timed out; steady: every
\* iteration of the run read the same image mode and frame count; allocFail:
\* an allocation failed in the run; stopReq: a stop request was accepted in the
\* run; bufZeroed / bufFrames: the buffer was zeroed since it was allocated,
\* and the frames composed into it since; badRelease: a handle was released
\* that was not allocated; newStart: Acquire = 1 was written since the last
\* run ended (since construction, before the first run); afterStop: frames
\* composed in the run since a stop request was accepted in it.
InitHist ==
    [starts |-> 0, runFrames |-> 0, timeouts |-> 0, steady |-> TRUE,
     allocFail |-> FALSE, stopReq |-> FALSE, bufZeroed |-> FALSE,
     bufFrames |-> 0, badRelease |-> FALSE, newStart |-> FALSE,
     afterStop |-> 0]

(***************************************************************************)
(* The port lock (asynPortDriver::lock / unlock, a recursive mutex)        *)
(***************************************************************************)
Lock(n) == n + 1
KeepLock(n) == n
Unlock(n) == n - 1
LockFree == workerLock = 0

(***************************************************************************)
(* NDArrayPool                                                             *)
(***************************************************************************)
\* number of handles the pool can have allocated at once
MaxArrays == 3
ArrayIds == 1 .. MaxArrays
\* what the memory of a newly allocated array may hold
PoolFill == {R(0), R(5)}

FreeId(pl) == CHOOSE i \in ArrayIds \ pl : \A j \in ArrayIds \ pl : i <= j

NElements(dims) == IF dims[2] = 0 THEN dims[1] ELSE dims[1] * dims[2]

\* the NULL pointer: handle 0
NullArray == [id |-> 0, dims |-> <<0, 0>>, dataType |-> "none", data |-> <<>>]
IsNull(a) == a.id = 0

NewArray(id, dims, dataType, fill) ==
    [id |-> id, dims |-> dims, dataType |-> dataType,
     data |-> [i \in 0 .. NElements(dims) - 1 |-> fill]]

(***************************************************************************)
(* writeInt32 / writeFloat64, called with the port lock held               *)
(***************************************************************************)
PeakIntField(function) ==
    CASE function = "ADSPPeakType1D" -> "type1d"
      [] function = "ADSPPeakType2D" -> "type2d"
      [] function = "ADSPPeakMinX" -> "minX"
      [] function = "ADSPPeakMinY" -> "minY"
      [] function = "ADSPPeakMaxX" -> "maxX"
      [] function = "ADSPPeakMaxY" -> "maxY"
      [] OTHER -> "none"

PeakFloatField(function) ==
    CASE function = "ADSPPeakPosX" -> "posX"
      [] function = "ADSPPeakPosY" -> "posY"
      [] function = "ADSPPeakFWHMX" -> "fwhmX"
      [] function = "ADSPPeakFWHMY" -> "fwhmY"
      [] function = "ADSPPeakAmp" -> "amp"
      [] function = "ADSPPeakCor" -> "cor"
      [] function = "ADSPPeakP1" -> "p1"
      [] function = "ADSPPeakP2" -> "p2"
      [] OTHER -> "none"

IMax(a, b) == IF a > b THEN a ELSE b
IMin(a, b) == IF a < b THEN a ELSE b

\* the value writeInt32 stores for a written value
ClampInt32(function, value) ==
    CASE function = "ADSizeX" -> IMax(1, IMin(value, m_maxSizeX))
      [] function = "ADSizeY" -> IMax(1, IMin(value, m_maxSizeY))
      [] function = "ADSPPeakMinX" -> IMax(0, IMin(value, m_maxSizeX - 1))
      [] function = "ADSPPeakMinY" -> IMax(0, IMin(value, m_maxSizeY - 1))
      [] function = "ADSPPeakMaxX" -> IMax(0, IMin(value, m_maxSizeX - 1))
      [] function = "ADSPPeakMaxY" -> IMax(0, IMin(value, m_maxSizeX - 1))
      [] function = "ADNumImages" -> IMax(1, value)
      [] OTHER -> value

\* a start request is accepted
StartAccepted(function, value) ==
    function = "ADAcquire" /\ value = 1 /\ ~m_acquiring

StopAlwaysAccepted(function, value) ==
    function = "ADAcquire" /\ value = 0

\* a stop request is accepted
StopAccepted(function, value) ==
    function = "ADAcquire" /\ value = 0 /\ m_acquiring

StopStatusIdle(imageMode) == "Idle"

\* the detector status an accepted stop request sets
StopStatus(imageMode) == IF imageMode = "Continuous" THEN "Idle" ELSE "Aborted"

NeedsNewArrayTypeOnly(function, stored) == function = "NDDataType"

\* whether the write asks for a new NDArray
NeedsNewArray(function, stored) ==
    \/ function = "ADSizeX" /\ stored # param.ADSizeX
    \/ function = "ADSizeY" /\ stored # param.ADSizeY
    \/ function = "NDDataType"

writeInt32(function, addr, value) ==
    LET stored == ClampInt32(function, value)
        start == StartAccepted(function, value)
        stop == StopAccepted(function, value)
        status == IF stop THEN StopStatus(param.ADImageMode)
                  ELSE IF start THEN "Acquire" ELSE param.ADStatus
    IN  /\ LockFree
        /\ m_needReset' = (IF start THEN TRUE ELSE m_needReset)
        /\ m_startEvent' = (IF start THEN TRUE ELSE m_startEvent)
        /\ m_stopEvent' = (IF stop THEN TRUE ELSE m_stopEvent)
        /\ m_needNewArray' = (IF NeedsNewArray(function, stored) THEN TRUE
                              ELSE m_needNewArray)
        /\ IF PeakIntField(function) # "none"
           THEN /\ peakParam' = [peakParam EXCEPT ![addr][PeakIntField(function)] = stored]
                /\ param' = [param EXCEPT !.ADStatus = status]
           ELSE /\ param' = [[param EXCEPT !.ADStatus = status] EXCEPT ![function] = stored]
                /\ peakParam' = peakParam
        /\ hist' = [hist EXCEPT !.stopReq = (@ \/ stop),
                                !.starts = IF start THEN @ + 1 ELSE @,
                                !.newStart = (@ \/ (function = "ADAcquire" /\ value = 1))]
        /\ UNCHANGED <<cfgVars, m_acquiring, p_NDArray, workerLock, workerVars, poolVars>>

StoreUnclamped(function, value) == value

\* the value writeFloat64 stores for a written value
ClampFloat64(function, value) ==
    CASE function = "ADAcquirePeriod" -> RMax(R(0), value)
      [] function = "ADSPPeakFWHMX" -> RMax(R(1), value)
      [] function = "ADSPPeakFWHMY" -> RMax(R(1), value)
      [] function = "ADSPPeakCor" -> RMin(R(1), RMax(R(-1), value))
      [] OTHER -> value

writeFloat64(function, addr, value) ==
    LET stored == ClampFloat64(function, value)
    IN  /\ LockFree
        /\ IF PeakFloatField(function) # "none"
           THEN /\ peakParam' = [peakParam EXCEPT ![addr][PeakFloatField(function)] = stored]
                /\ param' = param
           ELSE /\ param' = [param EXCEPT ![function] = stored]
                /\ peakParam' = peakParam
        /\ UNCHANGED <<cfgVars, drvVars, evVars, workerLock, workerVars, poolVars, hist>>


(***************************************************************************)
(* The acquisition thread (ADSimPeaks::ADSimPeaksTask)                     *)
(***************************************************************************)
\* thread entry: this->lock() before the loop
TaskEnter ==
    /\ pc = "enter"
    /\ LockFree
    /\ workerLock' = Lock(workerLock)
    /\ pc' = "loop"
    /\ UNCHANGED <<cfgVars, storeVars, drvVars, evVars, loc, poolVars, hist>>

\* top of while(true): not acquiring -> release the lock and wait for a start
\* event; acquiring -> next iteration
LoopTop ==
    /\ pc = "loop"
    /\ IF ~m_acquiring
       THEN /\ workerLock' = Unlock(workerLock)
            /\ pc' = "waitStart"
       ELSE /\ workerLock' = workerLock
            /\ pc' = "readParams"
    /\ UNCHANGED <<cfgVars, storeVars, drvVars, evVars, loc, poolVars, hist>>

\* epicsEventWait(m_startEvent) returns: the event is taken
StartEventWait ==
    /\ pc = "waitStart"
    /\ m_startEvent
    /\ m_startEvent' = FALSE
    /\ loc' = [loc EXCEPT !.eventStatus = "OK"]
    /\ pc' = "lockStart"
    /\ UNCHANGED <<cfgVars, storeVars, drvVars, m_stopEvent, workerLock, poolVars, hist>>

\* this->lock() after the start wait, and the start of the run
StartRun ==
    /\ pc = "lockStart"
    /\ LockFree
    /\ workerLock' = Lock(workerLock)
    /\ loc' = [loc EXCEPT !.imagesCounter = 0]
    /\ m_acquiring' = TRUE
    /\ param' = [param EXCEPT !.ADNumImagesCounter = 0]
    /\ hist' = [hist EXCEPT !.runFrames = 0, !.timeouts = 0, !.steady = TRUE,
                            !.allocFail = FALSE, !.stopReq = FALSE,
                            !.afterStop = 0]
    /\ pc' = "readParams"
    /\ UNCHANGED <<cfgVars, peakParam, m_needNewArray, m_needReset, p_NDArray,
                   evVars, poolVars>>

\* a counter after one more count.  capped: the count is cut off at cap, a
\* value the counter is never compared with anything greater than, so that
\* a run of any length has finitely many states
Count(c, capped, cap) == IF capped /\ c >= cap THEN c ELSE c + 1

\* the parameter reads at the head of an iteration
ReadParamsCount(capped) ==
    /\ pc = "readParams"
    /\ loc' = [loc EXCEPT !.arrayCallbacks = param.NDArrayCallbacks,
                          !.imageMode = param.ADImageMode,
                          !.numImages = param.ADNumImages,
                          !.imagesCounter = Count(@, capped, MaxNumImages + 1),
                          !.dataType = param.NDDataType,
                          !.sizeX = param.ADSizeX,
                          !.sizeY = param.ADSizeY,
                          !.dims = IF m_2d THEN <<param.ADSizeX, param.ADSizeY>>
                                   ELSE <<param.ADSizeX, 0>>]
    /\ hist' = [hist EXCEPT !.steady =
                    /\ @
                    /\ loc.imagesCounter > 0 =>
                          /\ loc.imageMode = param.ADImageMode
                          /\ loc.numImages = param.ADNumImages]
    /\ pc' = "alloc"
    /\ UNCHANGED <<cfgVars, storeVars, drvVars, evVars, workerLock, poolVars>>

ReadParams == ReadParamsCount(FALSE)

ReleaseNever(pl) == pl

\* the pool after the worker released its array (if it has one)
ReleaseOld(pl) == IF IsNull(p_NDArray) THEN pl ELSE pl \ {p_NDArray.id}

AfterAllocCleared(need, allocated) == FALSE

\* m_needNewArray after the allocation: cleared only if alloc() returned an
\* array
AfterAlloc(need, allocated) == IF allocated THEN FALSE ELSE need

\* if (m_needNewArray): release the old array and allocate a new one;
\* ok: the pool's answer
AllocArray(ok, fill) ==
    /\ pc = "alloc"
    /\ m_needNewArray
    /\ LET pl == ReleaseOld(pool)
       IN  /\ hist' = [hist EXCEPT
                 !.badRelease = (@ \/ (~IsNull(p_NDArray) /\ p_NDArray.id \notin pool)),
                 !.allocFail = (@ \/ ~ok),
                 !.bufZeroed = FALSE, !.bufFrames = 0]
           /\ IF ok /\ pl # ArrayIds
              THEN /\ p_NDArray' = NewArray(FreeId(pl), loc.dims, loc.dataType, fill)
                   /\ pool' = pl \cup {FreeId(pl)}
                   /\ m_needNewArray' = AfterAlloc(m_needNewArray, TRUE)
              ELSE /\ ~ok
                   /\ p_NDArray' = NullArray
                   /\ pool' = pl
                   /\ m_needNewArray' = AfterAlloc(m_needNewArray, FALSE)
    /\ pc' = "compute"
    /\ UNCHANGED <<cfgVars, storeVars, m_acquiring, m_needReset, evVars, workerLock,
                   loc, published>>

KeepArray ==
    /\ pc = "alloc"
    /\ ~m_needNewArray
    /\ pc' = "compute"
    /\ UNCHANGED <<cfgVars, storeVars, drvVars, evVars, workerLock, loc, poolVars, hist>>

\* the buffer is zeroed by this frame
Zeroes == param.ADSPIntegrate = 0 \/ m_needReset

\* computeData: computeDataT for the element type, on the driver's state
computeData(data, smp) ==
    computeDataT(data, loc.dataType, ubMode, m_2d, param.ADSizeX, param.ADSizeY,
                 param.ADSPIntegrate, m_needReset, BgX(param), BgY(param),
                 peakParam, NoiseOf(param), smp)

\* if (p_NDArray != NULL): computeData(dataType) and the frame's counters;
\* smp: the noise samples drawn for the frame
ComputeFrameCount(smp, capped) ==
    /\ pc = "compute"
    /\ ~IsNull(p_NDArray)
    /\ p_NDArray' = [p_NDArray EXCEPT !.data = computeData(p_NDArray.data, smp)]
    /\ m_needReset' = FALSE
    /\ param' = [param EXCEPT !.ADNumImagesCounter = loc.imagesCounter]
    /\ hist' = [hist EXCEPT !.runFrames = Count(@, capped, MaxNumImages + 1),
                            !.bufZeroed = (@ \/ Zeroes),
                            !.bufFrames = IF Zeroes THEN 1
                                          ELSE Count(@, capped, MaxNumImages + 1),
                            !.afterStop = IF hist.stopReq THEN Count(@, TRUE, MaxNumImages + 1)
                                          ELSE @]
    /\ pc' = "publish"
    /\ UNCHANGED <<cfgVars, peakParam, m_acquiring, m_needNewArray, evVars, workerLock,
                   loc, poolVars>>

ComputeFrame(smp) == ComputeFrameCount(smp, FALSE)

SkipFrame ==
    /\ pc = "compute"
    /\ IsNull(p_NDArray)
    /\ pc' = "decide"
    /\ UNCHANGED <<cfgVars, storeVars, drvVars, evVars, workerLock, loc, poolVars, hist>>

\* the array handed to doCallbacksGenericPointer
PublishedArray(copyId) ==
    [id |-> copyId, dims |-> p_NDArray.dims, dataType |-> p_NDArray.dataType,
     data |-> p_NDArray.data]

\* if (arrayCallbacks): copy, doCallbacksGenericPointer, release the copy
Publish ==
    /\ pc = "publish"
    /\ IF loc.arrayCallbacks # 0
       THEN /\ pool # ArrayIds
            /\ published' = PublishedArray(FreeId(pool))
       ELSE published' = published
    /\ pc' = "decide"
    /\ UNCHANGED <<cfgVars, storeVars, drvVars, evVars, workerLock, loc, pool, hist>>

\* the run is finished after this iteration
FinishedCountOnly(imageMode, imagesCounter, numImages) ==
    imageMode = "Multiple" /\ imagesCounter >= numImages

FinishedAnyMode(imageMode, imagesCounter, numImages) ==
    \/ imageMode = "Single"
    \/ imagesCounter >= numImages

Finished(imageMode, imagesCounter, numImages) ==
    \/ imageMode = "Single"
    \/ imageMode = "Multiple" /\ imagesCounter >= numImages

\* "Figure out if we are finished": end the run, or release the lock and
\* wait for a stop event
Decide ==
    /\ pc = "decide"
    /\ IF Finished(loc.imageMode, loc.imagesCounter, loc.numImages)
       THEN /\ m_acquiring' = FALSE
            /\ param' = [param EXCEPT !.ADStatus = "Idle", !.ADAcquire = 0]
            /\ workerLock' = workerLock
            /\ hist' = [hist EXCEPT !.newStart = FALSE]
            /\ pc' = "loop"
       ELSE /\ m_acquiring' = m_acquiring
            /\ param' = param
            /\ workerLock' = Unlock(workerLock)
            /\ hist' = hist
            /\ pc' = "waitStop"
    /\ UNCHANGED <<cfgVars, peakParam, m_needNewArray, m_needReset, p_NDArray, evVars,
                   loc, poolVars>>

\* epicsEventWaitWithTimeout(m_stopEvent, updatePeriod) returns with the event
StopEventWait ==
    /\ pc = "waitStop"
    /\ m_stopEvent
    /\ m_stopEvent' = FALSE
    /\ loc' = [loc EXCEPT !.eventStatus = "OK"]
    /\ pc' = "lockStop"
    /\ UNCHANGED <<cfgVars, storeVars, drvVars, m_startEvent, workerLock, poolVars, hist>>

\* ... or times out (at most limit times in a run)
StopEventTimeout(limit) ==
    /\ pc = "waitStop"
    /\ ~m_stopEvent
    /\ hist.timeouts < limit
    /\ hist' = [hist EXCEPT !.timeouts = @ + 1]
    /\ loc' = [loc EXCEPT !.eventStatus = "Timeout"]
    /\ pc' = "lockStop"
    /\ UNCHANGED <<cfgVars, storeVars, drvVars, evVars, workerLock, poolVars>>

\* ... or times out, any number of times
StopEventTimeoutAny ==
    /\ pc = "waitStop"
    /\ ~m_stopEvent
    /\ hist' = [hist EXCEPT !.timeouts = Count(@, TRUE, MaxTimeouts)]
    /\ loc' = [loc EXCEPT !.eventStatus = "Timeout"]
    /\ pc' = "lockStop"
    /\ UNCHANGED <<cfgVars, storeVars, drvVars, evVars, workerLock, poolVars>>

\* this->lock() after the timed wait, with the run going on whatever the wait
\* returned
AfterStopWaitGoesOn ==
    /\ pc = "lockStop"
    /\ LockFree
    /\ workerLock' = Lock(workerLock)
    /\ pc' = "loop"
    /\ UNCHANGED <<cfgVars, storeVars, drvVars, evVars, loc, poolVars, hist>>

\* this->lock() after the stop wait; the event ends the run
AfterStopWait ==
    /\ pc = "lockStop"
    /\ LockFree
    /\ workerLock' = Lock(workerLock)
    /\ m_acquiring' = (IF loc.eventStatus = "OK" THEN FALSE ELSE m_acquiring)
    /\ hist' = [hist EXCEPT !.newStart = (@ /\ loc.eventStatus # "OK")]
    /\ pc' = "loop"
    /\ UNCHANGED <<cfgVars, storeVars, m_needNewArray, m_needReset, p_NDArray, evVars,
                   loc, poolVars>>

NoNoise == [i \in {} |-> R(0)]

\* the steps of the thread but the allocation and the timeout
WorkerCommon ==
    \/ TaskEnter
    \/ LoopTop
    \/ StartEventWait
    \/ StartRun
    \/ ReadParams
    \/ KeepArray
    \/ ComputeFrame(NoNoise)
    \/ Publish
    \/ Decide
    \/ StopEventWait
    \/ AfterStopWait

\* ... with an allocation that may fail
WorkerSteps ==
    \/ WorkerCommon
    \/ \E ok \in BOOLEAN, fill \in PoolFill : AllocArray(ok, fill)
    \/ SkipFrame


(***************************************************************************)
(* Spec: the acquisition thread against the writers of the run control,    *)
(* buffer shape and integration parameters; 1D, constant background 2.     *)
(***************************************************************************)
SpecTypes == {"NDInt8", "NDFloat64"}

ConstantBackground(p, c0) ==
    [p EXCEPT !.ADSPBGTypeX = "polynomial", !.ADSPBGC0X = R(c0)]

\* the state after construction with the given configuration
\* no call of zeroCheck is under study
NoCall == zcValue = R(0) /\ zcResult = <<>>

InitState(maxX, maxY, maxPeaks, ub, pm, pks) ==
    /\ NoCall
    /\ m_maxSizeX = maxX
    /\ m_maxSizeY = maxY
    /\ m_maxPeaks = maxPeaks
    /\ ubMode = ub
    /\ param = pm
    /\ peakParam = pks
    /\ m_acquiring = FALSE
    /\ m_needNewArray = TRUE
    /\ m_needReset = FALSE
    /\ p_NDArray = NullArray
    /\ m_startEvent = FALSE
    /\ m_stopEvent = FALSE
    /\ workerLock = 0
    /\ pc = "enter"
    /\ loc = InitLoc
    /\ pool = {}
    /\ published = NullArray
    /\ hist = InitHist

Init ==
    \E t \in SpecTypes :
        InitState(MaxSizeBound, 0, 1, "wrap",
                  [ConstantBackground(InitParam(MaxSizeBound, 0), 2)
                      EXCEPT !.NDDataType = t],
                  [k \in 0 .. 0 |-> InitPeak])

\* a write of Acquire; at most limit start requests are accepted
AcquireWrite(limit) ==
    \E v \in {0, 1} :
        /\ StartAccepted("ADAcquire", v) => hist.starts < limit
        /\ writeInt32("ADAcquire", 0, v)

WriteAcquire == AcquireWrite(MaxStarts)
WriteImageMode == \E m \in ImageModes : writeInt32("ADImageMode", 0, m)
WriteNumImages == \E n \in 0 .. MaxNumImages : writeInt32("ADNumImages", 0, n)
WriteIntegrate == \E v \in {0, 1} : writeInt32("ADSPIntegrate", 0, v)
WriteSizeX == \E v \in 0 .. MaxSizeBound + 1 : writeInt32("ADSizeX", 0, v)
WriteDataType == \E t \in SpecTypes : writeInt32("NDDataType", 0, t)
WriteArrayCallbacks == \E v \in {0, 1} : writeInt32("NDArrayCallbacks", 0, v)

Next ==
    \/ WorkerSteps
    \/ StopEventTimeout(MaxTimeouts)
    \/ WriteAcquire
    \/ WriteImageMode
    \/ WriteNumImages
    \/ WriteIntegrate

Spec == Init /\ [][Next]_vars


(***************************************************************************)
(* SpecIntegrate: long runs with integration enabled, constant background  *)
(* 2, no peaks, no noise, allocation succeeding; the element type and the  *)
(* build's narrowing of an out-of-range value are drawn in the initial     *)
(* state.                                                                  *)
(***************************************************************************)
IntegrateTypes == {"NDInt8", "NDUInt8", "NDFloat64"}
UbModes == {"wrap", "saturate"}

InitIntegrate ==
    \E t \in IntegrateTypes, ub \in UbModes :
        InitState(MaxSizeBound, 0, 1, ub,
                  [ConstantBackground(InitParam(MaxSizeBound, 0), 2)
                      EXCEPT !.NDDataType = t, !.ADSPIntegrate = 1],
                  [k \in 0 .. 0 |-> InitPeak])

NextIntegrate ==
    \/ WorkerCommon
    \/ \E fill \in PoolFill : AllocArray(TRUE, fill)
    \/ StopEventTimeout(MaxIntegrateFrames)
    \/ AcquireWrite(1)

SpecIntegrate == InitIntegrate /\ [][NextIntegrate]_vars

(***************************************************************************)
(* SpecCompose: computeData applied frame after frame to one buffer, for   *)
(* background, peak, element type and integration settings drawn in the    *)
(* initial state (the worker is in a run, at the compute step of an        *)
(* iteration, and holds the lock; the buffer is as the pool handed it out).*)
(***************************************************************************)
ComposeTypes == {"NDInt8", "NDUInt8", "NDFloat64"}

Bg(type, c0, c1, c2, c3, sh) ==
    [type |-> type, c0 |-> c0, c1 |-> c1, c2 |-> c2, c3 |-> c3, sh |-> sh]

BgChoicesX ==
    { Bg("none", R(0), R(0), R(0), R(0), R(0)),
      Bg("polynomial", R(2), R(0), R(0), R(0), R(0)),
      Bg("polynomial", Rat(1, 2), R(1), R(0), R(0), R(0)),
      Bg("polynomial", R(-3), R(200), R(1), R(1), R(1)),
      Bg("exponential", R(1), R(2), R(1), R(0), R(1)) }

BgChoicesY ==
    { Bg("none", R(0), R(0), R(0), R(0), R(0)),
      Bg("polynomial", R(1), R(1), R(0), R(0), R(0)),
      Bg("exponential", R(0), R(1), R(-1), R(0), R(0)) }

WithBackground(p, bx, by) ==
    [p EXCEPT !.ADSPBGTypeX = bx.type, !.ADSPBGC0X = bx.c0, !.ADSPBGC1X = bx.c1,
              !.ADSPBGC2X = bx.c2, !.ADSPBGC3X = bx.c3, !.ADSPBGSHX = bx.sh,
              !.ADSPBGTypeY = by.type, !.ADSPBGC0Y = by.c0, !.ADSPBGC1Y = by.c1,
              !.ADSPBGC2Y = by.c2, !.ADSPBGC3Y = by.c3, !.ADSPBGSHY = by.sh]

PeakChoices ==
    { InitPeak,
      [InitPeak EXCEPT !.type1d = "square", !.type2d = "square",
                       !.fwhmX = R(2), !.fwhmY = R(2), !.amp = R(3)],
      [InitPeak EXCEPT !.type1d = "triangle", !.type2d = "square",
                       !.posX = R(0), !.amp = Rat(-5, 2)] }

ComposePeaks == 2

InitCompose ==
    \E maxY \in {0, MaxSizeBound}, t \in ComposeTypes, ub \in UbModes,
       integrate \in {0, 1}, needReset \in BOOLEAN, fill \in PoolFill,
       bx \in BgChoicesX, by \in BgChoicesY,
       pks \in [0 .. ComposePeaks - 1 -> PeakChoices] :
        /\ maxY = 0 => by.type = "none"
        /\ m_maxSizeX = MaxSizeBound
        /\ m_maxSizeY = maxY
        /\ m_maxPeaks = ComposePeaks
        /\ NoCall
        /\ ubMode = ub
        /\ param = [WithBackground(InitParam(MaxSizeBound, maxY), bx, by)
                       EXCEPT !.NDDataType = t, !.ADSPIntegrate = integrate,
                              !.ADAcquire = 1, !.ADStatus = "Acquire"]
        /\ peakParam = pks
        /\ m_acquiring = TRUE
        /\ m_needNewArray = FALSE
        /\ m_needReset = needReset
        /\ LET dims == <<MaxSizeBound, maxY>>
           IN  /\ p_NDArray = NewArray(1, dims, t, fill)
               /\ loc = [InitLoc EXCEPT !.arrayCallbacks = 1,
                                        !.imageMode = "Continuous",
                                        !.numImages = 1, !.imagesCounter = 1,
                                        !.dataType = t, !.sizeX = MaxSizeBound,
                                        !.sizeY = maxY, !.dims = dims]
        /\ m_startEvent = FALSE
        /\ m_stopEvent = FALSE
        /\ workerLock = 1
        /\ pc = "compute"
        /\ pool = {1}
        /\ published = NullArray
        /\ hist = InitHist

\* computeData on the buffer, once more
Compose ==
    /\ pc = "compute"
    /\ ~IsNull(p_NDArray)
    /\ hist.runFrames < MaxComposeFrames
    /\ p_NDArray' = [p_NDArray EXCEPT !.data = computeData(p_NDArray.data, NoNoise)]
    /\ m_needReset' = FALSE
    /\ hist' = [hist EXCEPT !.runFrames = @ + 1,
                            !.bufZeroed = (@ \/ Zeroes),
                            !.bufFrames = IF Zeroes THEN 1 ELSE @ + 1]
    /\ UNCHANGED <<cfgVars, storeVars, m_acquiring, m_needNewArray, evVars,
                   workerLock, pc, loc, poolVars>>

NextCompose == Compose

SpecCompose == InitCompose /\ [][NextCompose]_vars

(***************************************************************************)
(* SpecBuffer: the acquisition thread against the writers of the buffer    *)
(* shape and element type (and of Acquire); 1D and 2D detectors, constant  *)
(* background 2, allocations that may fail.                                *)
(***************************************************************************)
WriteSizeY == \E v \in 0 .. MaxSizeBound + 1 : writeInt32("ADSizeY", 0, v)

InitBuffer ==
    \E maxY \in {0, MaxSizeBound}, t \in SpecTypes :
        InitState(MaxSizeBound, maxY, 1, "wrap",
                  [ConstantBackground(InitParam(MaxSizeBound, maxY), 2)
                      EXCEPT !.NDDataType = t],
                  [k \in 0 .. 0 |-> InitPeak])

NextBuffer ==
    \/ WorkerSteps
    \/ StopEventTimeout(MaxTimeouts)
    \/ AcquireWrite(1)
    \/ WriteSizeX
    \/ WriteSizeY
    \/ WriteDataType

SpecBuffer == InitBuffer /\ [][NextBuffer]_vars

(***************************************************************************)
(* SpecReplace: the same thread and writers, with integration enabled from *)
(* construction on, so that a buffer replaced in the middle of a run is     *)
(* composed into without a reset.                                          *)
(***************************************************************************)
InitReplace ==
    \E maxY \in {0, MaxSizeBound}, t \in SpecTypes :
        InitState(MaxSizeBound, maxY, 1, "wrap",
                  [ConstantBackground(InitParam(MaxSizeBound, maxY), 2)
                      EXCEPT !.NDDataType = t, !.ADSPIntegrate = 1],
                  [k \in 0 .. 0 |-> InitPeak])

SpecReplace == InitReplace /\ [][NextBuffer]_vars

(***************************************************************************)
(* SpecApp: the acquisition thread of src/ADSimPeaksApp/src/ADSimPeaks.cpp, *)
(* the second copy of the driver source.  Its loop is that of the thread   *)
(* above but for the publication and the end of a run.                     *)
(***************************************************************************)
\* if (arrayCallbacks) doCallbacksGenericPointer(p_NDArray, NDArrayData, 0)
PublishDirect ==
    /\ pc = "publish"
    /\ published' = IF loc.arrayCallbacks # 0 THEN p_NDArray ELSE published
    /\ pc' = "decide"
    /\ UNCHANGED <<cfgVars, storeVars, drvVars, evVars, workerLock, loc, pool, hist>>

\* "Figure out if we are finished", without the reset of ADAcquire
DecideApp ==
    /\ pc = "decide"
    /\ IF Finished(loc.imageMode, loc.imagesCounter, loc.numImages)
       THEN /\ m_acquiring' = FALSE
            /\ param' = [param EXCEPT !.ADStatus = "Idle"]
            /\ workerLock' = workerLock
            /\ hist' = [hist EXCEPT !.newStart = FALSE]
            /\ pc' = "loop"
       ELSE /\ m_acquiring' = m_acquiring
            /\ param' = param
            /\ workerLock' = Unlock(workerLock)
            /\ hist' = hist
            /\ pc' = "waitStop"
    /\ UNCHANGED <<cfgVars, peakParam, m_needNewArray, m_needReset, p_NDArray, evVars,
                   loc, poolVars>>

NextApp ==
    \/ TaskEnter
    \/ LoopTop
    \/ StartEventWait
    \/ StartRun
    \/ ReadParams
    \/ \E fill \in PoolFill : AllocArray(TRUE, fill)
    \/ KeepArray
    \/ ComputeFrame(NoNoise)
    \/ PublishDirect
    \/ DecideApp
    \/ StopEventWait
    \/ StopEventTimeout(MaxTimeouts)
    \/ AfterStopWait
    \/ AcquireWrite(MaxStarts)
    \/ WriteImageMode
    \/ WriteArrayCallbacks

SpecApp == InitBuffer /\ [][NextApp]_vars

(***************************************************************************)
(* SpecLive: runs of any length.  The thread against the writers of        *)
(* Acquire and of the image mode, with at most MaxStarts accepted starts;  *)
(* the thread is scheduled whenever it can take a step, and its timed wait *)
(* returns.                                                                *)
(***************************************************************************)
WorkerLiveSteps ==
    \/ TaskEnter
    \/ LoopTop
    \/ StartEventWait
    \/ StartRun
    \/ ReadParamsCount(TRUE)
    \/ \E fill \in PoolFill : AllocArray(TRUE, fill)
    \/ KeepArray
    \/ Publish
    \/ Decide
    \/ StopEventWait
    \/ StopEventTimeoutAny
    \/ AfterStopWait

\* the thread's step through computeData: from "compute" on to "publish"
ComputeReturns == pc = "compute" /\ pc' = "publish"

WorkerLive == WorkerLiveSteps \/ ComputeFrameCount(NoNoise, TRUE)

NextLive ==
    \/ WorkerLive
    \/ AcquireWrite(MaxStarts)
    \/ WriteImageMode

SpecLive == Init /\ [][NextLive]_vars /\ WF_vars(WorkerLiveSteps) /\ WF_pc(ComputeReturns)

(***************************************************************************)
(* Configuration writes while the thread is idle: the clamped parameters   *)
(* of writeInt32 and writeFloat64, written below, inside and above their   *)
(* ranges, on a 1D and on a 2D detector with two peak slots                *)
(***************************************************************************)
WriteValues == {R(-2), <<1, 2>>, R(2)}

WriteAcquirePeriod ==
    \E v \in WriteValues : writeFloat64("ADAcquirePeriod", 0, v)
WriteFWHMX ==
    \E k \in DOMAIN peakParam, v \in WriteValues : writeFloat64("ADSPPeakFWHMX", k, v)
WriteFWHMY ==
    \E k \in DOMAIN peakParam, v \in WriteValues : writeFloat64("ADSPPeakFWHMY", k, v)
WriteCor ==
    \E k \in DOMAIN peakParam, v \in WriteValues : writeFloat64("ADSPPeakCor", k, v)

InitWrites ==
    \E maxY \in {0, MaxSizeBound} :
        InitState(MaxSizeBound, maxY, 2, "wrap", InitParam(MaxSizeBound, maxY),
                  [k \in 0 .. 1 |-> InitPeak])

NextWrites ==
    \/ TaskEnter
    \/ LoopTop
    \/ WriteAcquirePeriod
    \/ WriteFWHMX
    \/ WriteFWHMY
    \/ WriteCor
    \/ WriteNumImages
    \/ WriteSizeX
    \/ WriteSizeY

SpecWrites == InitWrites /\ [][NextWrites]_vars

(***************************************************************************)
(* SpecRanges: writes of the peak bin-range boundaries while the thread is *)
(* idle, on a 1D detector and on a 2D detector that is wider than high     *)
(***************************************************************************)
WritePeakMinX ==
    \E k \in DOMAIN peakParam, v \in -1 .. m_maxSizeX + 1 :
        writeInt32("ADSPPeakMinX", k, v)
WritePeakMaxX ==
    \E k \in DOMAIN peakParam, v \in -1 .. m_maxSizeX + 1 :
        writeInt32("ADSPPeakMaxX", k, v)
WritePeakMinY ==
    \E k \in DOMAIN peakParam, v \in -1 .. m_maxSizeX + 1 :
        writeInt32("ADSPPeakMinY", k, v)
WritePeakMaxY ==
    \E k \in DOMAIN peakParam, v \in -1 .. m_maxSizeX + 1 :
        writeInt32("ADSPPeakMaxY", k, v)

InitRanges ==
    \E maxY \in {0, MaxSizeBound} :
        InitState(MaxSizeBound + 1, maxY, 2, "wrap",
                  InitParam(MaxSizeBound + 1, maxY), [k \in 0 .. 1 |-> InitPeak])

NextRanges ==
    \/ TaskEnter
    \/ LoopTop
    \/ WritePeakMinX
    \/ WritePeakMaxX
    \/ WritePeakMinY
    \/ WritePeakMaxY

SpecRanges == InitRanges /\ [][NextRanges]_vars

(***************************************************************************)
(* A call of zeroCheck (ADSimPeaks::zeroCheck and ADSimPeaksPeak::zeroCheck *)
(* are the same code) on values around s_zeroCheck and on ordinary values  *)
(***************************************************************************)
MaxSmall == 12

ZeroCheckInputs ==
    {Small(n, d) : n \in -MaxSmall .. MaxSmall, d \in {1, 10}}
        \cup {Rat(n, d) : n \in -3 .. 3, d \in {1, 2, ZeroCheckRoot}}

InitZeroCheck ==
    /\ zcValue \in ZeroCheckInputs
    /\ zcResult = <<>>
    /\ m_maxSizeX = MaxSizeBound /\ m_maxSizeY = 0 /\ m_maxPeaks = 1
    /\ ubMode = "wrap"
    /\ param = InitParam(MaxSizeBound, 0)
    /\ peakParam = [k \in 0 .. 0 |-> InitPeak]
    /\ m_acquiring = FALSE /\ m_needNewArray = TRUE /\ m_needReset = FALSE
    /\ p_NDArray = NullArray
    /\ m_startEvent = FALSE /\ m_stopEvent = FALSE
    /\ workerLock = 0 /\ pc = "enter" /\ loc = InitLoc
    /\ pool = {} /\ published = NullArray /\ hist = InitHist

\* the call returns
ZeroCheckCall ==
    /\ zcResult = <<>>
    /\ zcResult' = zeroCheck(zcValue)
    /\ UNCHANGED <<m_maxSizeX, m_maxSizeY, m_maxPeaks, ubMode, zcValue, storeVars,
                   drvVars, evVars, workerLock, workerVars, poolVars, hist>>

NextZeroCheck == ZeroCheckCall

SpecZeroCheck == InitZeroCheck /\ [][NextZeroCheck]_vars

(***************************************************************************)
(* SpecPeaks: computeData on larger buffers (1D of 10 bins, 2D of 8 x 8)   *)
(* with integration off and no noise, for two peak slots whose family,     *)
(* position, width, amplitude and bin-range boundaries are drawn in the    *)
(* initial state.                                                          *)
(***************************************************************************)
\* <<maxSizeX, maxSizeY>> of the detector
PeakShapes == {<<10, 0>>, <<8, 8>>}
PeakTypes == {"NDInt8", "NDFloat64"}

\* family, position, width and amplitude of a slot
PeakKernels ==
    { InitPeak,
      [InitPeak EXCEPT !.type1d = "square", !.type2d = "square",
                       !.posX = R(5), !.posY = R(5),
                       !.fwhmX = R(4), !.fwhmY = R(4), !.amp = R(3)],
      [InitPeak EXCEPT !.type1d = "square", !.type2d = "square",
                       !.posX = R(4), !.posY = R(4),
                       !.fwhmX = R(2), !.fwhmY = R(2), !.amp = R(5)],
      [InitPeak EXCEPT !.type1d = "triangle", !.type2d = "square",
                       !.posX = Rat(5, 2), !.posY = R(2),
                       !.fwhmX = R(2), !.fwhmY = R(3), !.amp = R(4)],
      [InitPeak EXCEPT !.type1d = "unsupported", !.type2d = "unsupported",
                       !.posX = R(3), !.posY = R(3), !.amp = R(7)] }

\* bin-range boundaries of a slot (0 as upper boundary: up to the size)
PeakRanges ==
    { [minX |-> 0, maxX |-> 0, minY |-> 0, maxY |-> 0],
      [minX |-> 5, maxX |-> 6, minY |-> 0, maxY |-> 0],
      [minX |-> 0, maxX |-> 4, minY |-> 4, maxY |-> 7] }

WithRange(pk, rg) ==
    [pk EXCEPT !.minX = rg.minX, !.maxX = rg.maxX,
               !.minY = rg.minY, !.maxY = rg.maxY]

PeakSlots == {WithRange(pk, rg) : pk \in PeakKernels, rg \in PeakRanges}

\* the worker at the compute step of an iteration of a run, with the buffer
\* as the pool handed it out
AtCompute(maxX, maxY, ub, pm, pks, needReset, fill) ==
    /\ m_maxSizeX = maxX
    /\ m_maxSizeY = maxY
    /\ m_maxPeaks = Cardinality(DOMAIN pks)
    /\ NoCall
    /\ ubMode = ub
    /\ param = [pm EXCEPT !.ADAcquire = 1, !.ADStatus = "Acquire"]
    /\ peakParam = pks
    /\ m_acquiring = TRUE
    /\ m_needNewArray = FALSE
    /\ m_needReset = needReset
    /\ p_NDArray = NewArray(1, <<maxX, maxY>>, pm.NDDataType, fill)
    /\ loc = [InitLoc EXCEPT !.arrayCallbacks = 1, !.imageMode = "Continuous",
                             !.numImages = 1, !.imagesCounter = 1,
                             !.dataType = pm.NDDataType, !.sizeX = maxX,
                             !.sizeY = maxY, !.dims = <<maxX, maxY>>]
    /\ m_startEvent = FALSE
    /\ m_stopEvent = FALSE
    /\ workerLock = 1
    /\ pc = "compute"
    /\ pool = {1}
    /\ published = NullArray
    /\ hist = InitHist

InitPeaks ==
    \E sh \in PeakShapes, t \in PeakTypes, fill \in PoolFill,
       pks \in [0 .. 1 -> PeakSlots] :
        AtCompute(sh[1], sh[2], "wrap",
                  [InitParam(sh[1], sh[2]) EXCEPT !.NDDataType = t],
                  [k \in DOMAIN pks |->
                      IF sh[2] = 0 THEN [pks[k] EXCEPT !.minY = 0] ELSE pks[k]],
                  FALSE, fill)

NextPeaks == Compose

SpecPeaks == InitPeaks /\ [][NextPeaks]_vars

(***************************************************************************)
(* Properties of the acquisition state machine, checked under Spec         *)
(***************************************************************************)
\* the worker has just left the body of an iteration (it holds the lock)
AtLoopEnd == pc = "loop" /\ loc.imagesCounter >= 1
\* ... and that iteration ended the run
RunEnded == AtLoopEnd /\ ~m_acquiring

\* C1: a run whose first iteration reads image mode Single, and whose
\* allocation succeeds, has composed exactly one frame when that iteration
\* ends, the worker is then idle (m_acquiring false, status Idle), and the
\* worker is never in the wait for the stop event in an iteration that read
\* Single.
C1_SingleRunOneFrame ==
    /\ pc \in {"waitStop", "lockStop"} => loc.imageMode # "Single"
    /\ (AtLoopEnd /\ loc.imagesCounter = 1 /\ loc.imageMode = "Single"
           /\ ~hist.allocFail)
         => (~m_acquiring /\ param.ADStatus = "Idle" /\ hist.runFrames = 1)

C1_Witness ==
    /\ RunEnded /\ loc.imagesCounter = 1 /\ loc.imageMode = "Single"
    /\ ~hist.allocFail /\ hist.runFrames = 1 /\ param.ADStatus = "Idle"

\* C2: when a run ends in which every iteration read image mode Multiple and
\* the same frame count N, no stop request was accepted and no allocation
\* failed, the run has composed exactly N frames, the status is Idle and the
\* Acquire parameter is 0.
C2_MultipleRunNFrames ==
    (RunEnded /\ loc.imageMode = "Multiple" /\ hist.steady /\ ~hist.stopReq
        /\ ~hist.allocFail)
      => (hist.runFrames = loc.numImages /\ param.ADStatus = "Idle"
            /\ param.ADAcquire = 0)

\* C3: in an iteration that read image mode Continuous the worker goes from
\* the decision to the timed wait for the stop event (lock released, still
\* acquiring); after a wait that timed out it is still acquiring and goes on
\* to the next iteration; and m_acquiring becomes false only in the step
\* after a wait that returned with the stop event.
C3_ContinuousUntilStop ==
    [][ /\ (pc = "decide" /\ loc.imageMode = "Continuous")
             => (pc' = "waitStop" /\ m_acquiring' /\ workerLock' = 0)
        /\ (pc = "lockStop" /\ pc' # pc /\ loc.imageMode = "Continuous"
               /\ loc.eventStatus = "Timeout")
             => (pc' = "loop" /\ m_acquiring')
        /\ (pc = "loop" /\ m_acquiring) => pc' = "readParams"
        /\ (loc.imageMode = "Continuous" /\ m_acquiring /\ ~m_acquiring')
             => (pc = "lockStop" /\ loc.eventStatus = "OK")
      ]_vars

C3_Witness ==
    /\ pc = "compute" /\ loc.imageMode = "Continuous" /\ loc.imagesCounter = 2
    /\ loc.eventStatus = "Timeout" /\ m_acquiring

\* C4: a write of Acquire = 0 while m_acquiring is false changes nothing but
\* the stored Acquire parameter: the stop event is not signalled, the status
\* is not changed, and no state a later run reads is changed.
C4_StopWhileIdleNoOp ==
    [][ (writeInt32("ADAcquire", 0, 0) /\ ~m_acquiring)
          => /\ m_stopEvent' = m_stopEvent
             /\ param'.ADStatus = param.ADStatus
             /\ param' = [param EXCEPT !.ADAcquire = 0]
             /\ UNCHANGED <<peakParam, drvVars, m_startEvent, workerLock,
                            workerVars, poolVars>>
      ]_vars

\* a start request was accepted and then a stop request was written while the
\* worker had not yet started the run
C4_Witness ==
    /\ ~m_acquiring /\ param.ADAcquire = 0 /\ param.ADStatus = "Acquire"
    /\ m_startEvent /\ ~m_stopEvent

C6_FirstFrameFromZero ==
    (pc = "publish" /\ hist.runFrames = 1 /\ ~hist.allocFail)
      => /\ \A bin \in DOMAIN p_NDArray.data : p_NDArray.data[bin] = R(2)
         /\ loc.imagesCounter = 1
         /\ param.ADNumImagesCounter = 1

\* C7: the worker holds the port lock exactly once at every point of its
\* loop except in the two waits (and before the lock call that follows each),
\* where it does not hold it; and no step taken while the worker is between
\* the parameter reads and the decision of an iteration is a parameter write.
LockedPcs == {"loop", "readParams", "alloc", "compute", "publish", "decide"}
UnlockedPcs == {"enter", "waitStart", "lockStart", "waitStop", "lockStop"}
LockShape ==
    /\ pc \in LockedPcs => workerLock = 1
    /\ pc \in UnlockedPcs => workerLock = 0

C7_LockDiscipline ==
    /\ LockShape
    /\ [][ /\ LockShape'
           /\ (pc \in LockedPcs /\ pc' = pc) => UNCHANGED <<param, peakParam>>
         ]_vars

C7_Witness ==
    /\ pc = "waitStop" /\ workerLock = 0 /\ hist.runFrames = 2
    /\ param.ADImageMode # loc.imageMode


(***************************************************************************)
(* Properties of the compositor                                            *)
(***************************************************************************)
\* v is a value of element type T
Fits(v, T) == T \in FloatTypes \/ (TypeMin(T) <= v /\ v <= TypeMax(T))

NoiseNone == NoiseOf(param).type = "none"
ZeroData == [i \in DOMAIN p_NDArray.data |-> R(0)]

\* C9: with integration disabled and noise type none, a step that composes
\* a frame into a buffer that already holds a frame composed with the same
\* descriptors leaves the buffer as it was, and the frame it composes is the
\* frame composed from an all-zero buffer, whatever the buffer held before.
C9_ComposeTwiceSame ==
    [][ (param.ADSPIntegrate = 0 /\ NoiseNone
            /\ hist'.runFrames = hist.runFrames + 1)
          => /\ hist.runFrames >= 1 => p_NDArray'.data = p_NDArray.data
             /\ p_NDArray'.data = computeData(ZeroData, NoNoise)
      ]_vars

C9_Witness ==
    /\ hist.runFrames = 2 /\ param.ADSPIntegrate = 0 /\ NoiseNone
    /\ peakParam[0].type1d = "square" /\ peakParam[1].type1d = "triangle"
    /\ param.ADSPBGTypeX = "exponential"
    /\ \E bin \in DOMAIN p_NDArray.data : p_NDArray.data[bin] # R(0)

\* the background formula of one axis at coordinate c
BackgroundFormula(bg, c) ==
    LET d == RSub(R(c), bg.sh)
    IN  CASE bg.type = "polynomial" ->
               RAdd(bg.c0,
                    RAdd(RMul(bg.c1, d),
                         RAdd(RMul(bg.c2, RMul(d, d)),
                              RMul(bg.c3, RMul(d, RMul(d, d))))))
          [] bg.type = "exponential" ->
               RAdd(bg.c0, RMul(bg.c1, PowE(RMul(bg.c2, d))))
          [] OTHER -> R(0)

\* ... of a bin: the X term at bin mod sizeX plus (2D) the Y term at bin div sizeX
FrameFormula(bin) ==
    RAdd(BackgroundFormula(BgX(param), bin % param.ADSizeX),
         IF m_2d THEN BackgroundFormula(BgY(param), bin \div param.ADSizeX)
         ELSE R(0))

AllPeaksNone ==
    \A k \in DOMAIN peakParam :
        peakParam[k].type1d = "none" /\ peakParam[k].type2d = "none"

BackgroundOnly ==
    hist.runFrames >= 1 /\ AllPeaksNone /\ NoiseNone /\ param.ADSPIntegrate = 0

\* C10: with every peak slot of type none, noise type none and integration
\* disabled, every bin of a floating-point buffer equals the background
\* formula of the bin, and every bin of an integer buffer equals the formula's
\* value truncated toward zero whenever that is a value of the element type.
C10_BackgroundOnly ==
    BackgroundOnly
      => \A bin \in DOMAIN p_NDArray.data :
            LET f == FrameFormula(bin)
            IN  IF p_NDArray.dataType \in FloatTypes
                THEN p_NDArray.data[bin] = f
                ELSE Fits(RTrunc(f), p_NDArray.dataType)
                        => p_NDArray.data[bin] = R(RTrunc(f))

C10_Witness ==
    /\ BackgroundOnly /\ m_2d /\ p_NDArray.dataType = "NDInt8"
    /\ param.ADSPBGTypeX = "exponential" /\ param.ADSPBGTypeY = "polynomial"
    /\ p_NDArray.data[3] = R(5)

\* C10 as stated: every bin equals the background formula of the bin
C10_EqualsFormula ==
    BackgroundOnly
      => \A bin \in DOMAIN p_NDArray.data : p_NDArray.data[bin] = FrameFormula(bin)


(***************************************************************************)
(* Properties of the peak loop, checked under SpecPeaks                    *)
(***************************************************************************)
BackgroundNone == param.ADSPBGTypeX = "none" /\ param.ADSPBGTypeY = "none"

\* the family tag computeDataT reads for the slot
PeakType(pk) == IF m_2d THEN pk.type2d ELSE pk.type1d

\* a frame has been composed from the peaks alone, no integration
PeaksOnly ==
    hist.runFrames >= 1 /\ BackgroundNone /\ NoiseNone /\ param.ADSPIntegrate = 0

\* slot k is the only slot that is not of type none
OnlyPeak(k) ==
    \A j \in DOMAIN peakParam : PeakType(peakParam[j]) # "none" <=> j = k

\* C11: in a frame composed from peak slot k alone, with boundaries
\* minX = a and maxX = b > 0 configured on slot k, every bin whose X
\* coordinate is outside [a, b] is 0, for every slot k.
C11_ZeroOutsideRange ==
    PeaksOnly =>
      \A k \in DOMAIN peakParam :
        (OnlyPeak(k) /\ peakParam[k].maxX > 0) =>
          \A bin \in DOMAIN p_NDArray.data :
            (bin % param.ADSizeX < peakParam[k].minX
               \/ bin % param.ADSizeX > peakParam[k].maxX)
              => p_NDArray.data[bin] = R(0)

\* the same for the boundaries of slot 0, which are the ones computeDataT reads
C11_ZeroOutsideSlot0Range ==
    PeaksOnly =>
      \A bin \in DOMAIN p_NDArray.data :
        (peakParam[0].maxX > 0
           /\ (bin % param.ADSizeX < peakParam[0].minX
                 \/ bin % param.ADSizeX > peakParam[0].maxX))
          => p_NDArray.data[bin] = R(0)


\* slot 0 holds the given family, position, width and amplitude with no
\* boundaries, and slot 1 is of type none
Slot0Alone(type, pos, fwhm, amp) ==
    /\ OnlyPeak(0)
    /\ PeakType(peakParam[0]) = type
    /\ peakParam[0].posX = R(pos) /\ peakParam[0].posY = R(pos)
    /\ peakParam[0].fwhmX = R(fwhm) /\ peakParam[0].fwhmY = R(fwhm)
    /\ peakParam[0].amp = R(amp)
    /\ peakParam[0].minX = 0 /\ peakParam[0].maxX = 0
    /\ peakParam[0].minY = 0 /\ peakParam[0].maxY = 0

SquareScenario1D ==
    PeaksOnly /\ ~m_2d /\ param.ADSizeX = 10 /\ Slot0Alone("square", 5, 4, 3)

\* C12: in the 1D frame of size 10 composed from one square peak with
\* pos = 5, fwhm = 4, amplitude = 3 (background none, no noise), exactly the
\* bins with 3 < bin <= 7 hold 3 and every other bin is 0.
C12_SquareBins ==
    SquareScenario1D =>
      \A bin \in DOMAIN p_NDArray.data :
        p_NDArray.data[bin] = IF 3 < bin /\ bin <= 7 THEN R(3) ELSE R(0)

C12_Witness ==
    /\ SquareScenario1D /\ p_NDArray.dataType = "NDFloat64"
    /\ p_NDArray.data[4] = R(3) /\ p_NDArray.data[7] = R(3)
    /\ p_NDArray.data[3] = R(0) /\ p_NDArray.data[8] = R(0)

\* C12 as stated: exactly the bins with 4 < bin <= 6 hold 3
C12_BinsFiveAndSix ==
    SquareScenario1D =>
      \A bin \in DOMAIN p_NDArray.data :
        p_NDArray.data[bin] = IF 4 < bin /\ bin <= 6 THEN R(3) ELSE R(0)

SquareScenario2D ==
    /\ PeaksOnly /\ m_2d /\ param.ADSizeX = 8 /\ param.ADSizeY = 8
    /\ Slot0Alone("square", 4, 2, 5)

\* C13: in the 2D 8 x 8 frame composed from one square peak with
\* posX = posY = 4, fwhmX = fwhmY = 2, amplitude = 5 (background none, no
\* noise), exactly the four bins with 3 < x <= 5 and 3 < y <= 5 hold 5 and
\* every other bin is 0.
C13_Square2DBins ==
    SquareScenario2D =>
      \A bin \in DOMAIN p_NDArray.data :
        LET x == bin % 8
            y == bin \div 8
        IN  p_NDArray.data[bin] =
              IF 3 < x /\ x <= 5 /\ 3 < y /\ y <= 5 THEN R(5) ELSE R(0)

C13_Witness ==
    /\ SquareScenario2D /\ p_NDArray.dataType = "NDInt8"
    /\ p_NDArray.data[36] = R(5) /\ p_NDArray.data[45] = R(5)
    /\ p_NDArray.data[35] = R(0) /\ p_NDArray.data[46] = R(0)

\* C13 as stated: exactly the single bin at (4, 4) holds 5
C13_SingleBin ==
    SquareScenario2D =>
      \A bin \in DOMAIN p_NDArray.data :
        p_NDArray.data[bin] = IF bin % 8 = 4 /\ bin \div 8 = 4 THEN R(5) ELSE R(0)


(***************************************************************************)
(* Properties of the buffer lifecycle, checked under SpecBuffer            *)
(***************************************************************************)
\* the iteration is about to release the buffer of the previous frame and
\* allocate its replacement
Replaces == pc = "alloc" /\ m_needNewArray /\ ~IsNull(p_NDArray)

\* the shape and element type the iteration read are those of the buffer
SameShapeAndType ==
    /\ NElements(loc.dims) = NElements(p_NDArray.dims)
    /\ loc.dims = p_NDArray.dims
    /\ loc.dataType = p_NDArray.dataType

\* C14: an iteration replaces the buffer of the previous frame only if the
\* shape or the element type it read differs from that of the buffer.
C14_ReallocOnlyOnChange == Replaces => ~SameShapeAndType


\* the shape the current parameters give
ShapeOfParams ==
    IF m_2d THEN <<param.ADSizeX, param.ADSizeY>> ELSE <<param.ADSizeX>>

\* the shape of the buffer
ShapeOfBuffer ==
    IF p_NDArray.dims[2] = 0 THEN <<p_NDArray.dims[1]>>
    ELSE <<p_NDArray.dims[1], p_NDArray.dims[2]>>

\* C15: whenever the thread is about to compose a frame, the buffer it
\* writes has the shape given by the current SizeX (and, on a 2D detector,
\* SizeY) parameters, holds that many elements, and has the element type
\* given by the current DataType parameter.
C15_BufferMatchesParams ==
    (pc = "compute" /\ ~IsNull(p_NDArray)) =>
        /\ ShapeOfBuffer = ShapeOfParams
        /\ Cardinality(DOMAIN p_NDArray.data) =
              param.ADSizeX * (IF m_2d THEN param.ADSizeY ELSE 1)
        /\ p_NDArray.dataType = param.NDDataType

\* a frame is about to be composed into a buffer allocated mid-run for a
\* smaller SizeX
C15_Witness ==
    /\ pc = "compute" /\ ~IsNull(p_NDArray) /\ hist.runFrames >= 1
    /\ hist.bufFrames = 0 /\ p_NDArray.dims[1] = 1 /\ param.ADSizeX = 1


\* the thread has no buffer although the iteration is past its allocation
\* step: the allocation of this iteration failed
AllocFailed == pc \in {"compute", "publish", "decide"} /\ IsNull(p_NDArray)

\* C16: when the allocation of an iteration fails, the iteration composes
\* and publishes nothing (from the allocation step the thread goes through
\* the skipped composition to the end-of-iteration decision, with the frame
\* count and the published array unchanged), the thread goes on to its
\* decision step, the need for a new buffer stays pending, and the next
\* iteration that reaches the allocation step attempts the allocation again.
C16_AllocFailureSkipsFrame ==
    /\ [](AllocFailed => (pc # "publish" /\ m_needNewArray))
    /\ [](IsNull(p_NDArray) => m_needNewArray)
    /\ [][/\ (AllocFailed /\ pc = "compute") =>
               /\ pc' = "decide"
               /\ published' = published
               /\ hist'.runFrames = hist.runFrames
               /\ IsNull(p_NDArray') /\ m_needNewArray'
          /\ (AllocFailed /\ pc = "decide") =>
               /\ pc' \in {"loop", "waitStop"}
               /\ published' = published
               /\ hist'.runFrames = hist.runFrames
               /\ IsNull(p_NDArray') /\ m_needNewArray'
          /\ (pc = "alloc" /\ IsNull(p_NDArray)) =>
               /\ pc' = "compute"
               /\ \/ IsNull(p_NDArray') /\ m_needNewArray'
                  \/ /\ ~IsNull(p_NDArray') /\ ~m_needNewArray'
                     /\ p_NDArray'.dims = loc.dims
                     /\ p_NDArray'.dataType = loc.dataType]_vars

\* a frame was composed in a run in which an earlier allocation had failed
C16_Witness ==
    /\ pc = "publish" /\ hist.allocFail /\ hist.runFrames = 1
    /\ loc.imagesCounter >= 2


\* the handles the thread holds
Held == IF IsNull(p_NDArray) THEN {} ELSE {p_NDArray.id}

FloatsInRange ==
    /\ \A k \in DOMAIN peakParam :
          /\ RLe(R(1), peakParam[k].fwhmX)
          /\ RLe(R(1), peakParam[k].fwhmY)
          /\ RLe(R(-1), peakParam[k].cor) /\ RLe(peakParam[k].cor, R(1))
    /\ RLe(R(0), param.ADAcquirePeriod)
    /\ param.ADNumImages >= 1
    /\ param.ADSizeX \in 1 .. m_maxSizeX

\* the highest SizeY a write stores
TopSizeY == IMax(1, m_maxSizeY)

\* C18: the stored FWHM X and Y of every slot are >= 1, the stored
\* correlation is in [-1, 1], the stored acquire period is >= 0, the stored
\* frame count is >= 1 and the stored SizeX is in [1, maxSizeX] at all
\* times; a SizeY that a write has changed is in [1, max(1, maxSizeY)], so
\* it is 1 on a 1D detector (maxSizeY = 0), where it is 0 until written.
C18_ClampedWrites ==
    /\ [](FloatsInRange)
    /\ [](param.ADSizeY \in 1 .. TopSizeY \/ (~m_2d /\ param.ADSizeY = 0))
    /\ [][param'.ADSizeY # param.ADSizeY => param'.ADSizeY \in 1 .. TopSizeY]_vars

\* writes have gone through every clamp: the stored values differ from the
\* constructed ones in both slots, with a correlation of -1 (written -2), a
\* period of 0 (written -2), SizeX lowered to 1 and, on the 1D detector,
\* SizeY 1
C18_Witness ==
    /\ peakParam[0].fwhmX = R(2) /\ peakParam[1].fwhmX = R(1)
    /\ peakParam[1].fwhmY = R(2)
    /\ peakParam[1].cor = R(-1) /\ peakParam[0].cor = <<1, 2>>
    /\ param.ADAcquirePeriod = R(0)
    /\ param.ADNumImages = MaxNumImages /\ param.ADSizeX = 1
    /\ ~m_2d /\ param.ADSizeY = 1

\* C18 as stated: SizeY changed by a write is in [1, maxSizeY]
C18_SizeYWithinMax ==
    [][param'.ADSizeY # param.ADSizeY => param'.ADSizeY \in 1 .. m_maxSizeY]_vars


(***************************************************************************)
(* Unsupported family tags                                                 *)
(***************************************************************************)
SupportedTags == {"none", "square", "triangle"}

Unsupported(pk) == PeakType(pk) \notin SupportedTags

\* the slots with every unsupported tag replaced by none
AsNone(pks) ==
    [k \in DOMAIN pks |->
        IF Unsupported(pks[k])
        THEN [pks[k] EXCEPT !.type1d = "none", !.type2d = "none"]
        ELSE pks[k]]

\* C19: a composed frame is, bin for bin, the frame computeDataT gives for
\* the same parameters with every slot of unsupported family tag set to
\* type none: such a slot adds nothing and leaves the contribution (and
\* the scaling) of every other slot as it is.
C19_UnsupportedAsNone ==
    (hist.runFrames >= 1 /\ param.ADSPIntegrate = 0) =>
        p_NDArray.data =
            computeDataT(p_NDArray.data, loc.dataType, ubMode, m_2d,
                         param.ADSizeX, param.ADSizeY, param.ADSPIntegrate,
                         m_needReset, BgX(param), BgY(param),
                         AsNone(peakParam), NoiseOf(param), NoNoise)

\* a frame composed from a square peak in slot 0, amplitude 3, followed by
\* a slot of unsupported tag with amplitude 7: bin 5 holds 3
C19_Witness ==
    /\ hist.runFrames >= 1
    /\ ~m_2d
    /\ peakParam[0].type1d = "square" /\ peakParam[0].amp = R(3)
    /\ peakParam[0].maxX = 0
    /\ Unsupported(peakParam[1]) /\ peakParam[1].amp = R(7)
    /\ p_NDArray.data[5] = R(3)


(***************************************************************************)
(* zeroCheck                                                               *)
(***************************************************************************)
\* |v| < 1e-12, from the value itself: a value given in units of 1e-12 by
\* its size, an ordinary rational of the model (denominator below 10^12)
\* only if it is 0
BelowThreshold(v) == IF IsSmall(v) THEN Abs(v[1]) < v[2] ELSE v[1] = 0

\* C20: zeroCheck(v) returns 1.0 if |v| < 1e-12 and v itself otherwise, so
\* that a returned 1.0 for an argument other than 1.0 means |v| < 1e-12
\* (1e-12 being the constant s_zeroCheck; at |v| = 1e-12 the value is
\* returned unchanged).
C20_ZeroCheck ==
    zcResult # <<>> =>
        /\ BelowThreshold(zcValue) => zcResult = R(1)
        /\ ~BelowThreshold(zcValue) => zcResult = zcValue
        /\ (zcResult = R(1) /\ zcValue # R(1)) => BelowThreshold(zcValue)

\* the call has returned 1.0 for 0.9e-12
C20_Witness == zcValue = Small(9, 10) /\ zcResult = R(1)

\* the call has returned -1e-12 for -1e-12
C20_WitnessBoundary == zcValue = Small(-1, 1) /\ zcResult = Small(-1, 1)

(***************************************************************************)
(* Normalisation of a peak                                                 *)
(***************************************************************************)
\* scale_factor as computeDataT computes it for a slot
ScaleFactor(pk) ==
    IF m_2d
    THEN AddPeak2D([scale |-> R(0), data |-> <<>>], pk, loc.dataType, ubMode,
                   param.ADSizeX, 0, 0, 0, 0).scale
    ELSE AddPeak1D([scale |-> R(0), data |-> <<>>], pk, loc.dataType, ubMode,
                   0, 0).scale

\* the square and the triangle kernel at their own centre, as a function of
\* a real coordinate: 1.0 for every centre
KernelAtCentre(pk) == R(1)

\* C21: for every slot of a supported family other than none, whose kernel
\* value at its centre is not within 1e-12 of zero, the scale factor used
\* for the composed frame satisfies kernel(pos) * scale = amplitude, pos
\* being the configured (real) centre.
C21_ScaleNormalisesCentre ==
    hist.runFrames >= 1 =>
        \A k \in DOMAIN peakParam :
            (PeakType(peakParam[k]) \in SupportedTags \ {"none"}
                /\ ~NearZero(KernelAtCentre(peakParam[k])))
              => RMul(KernelAtCentre(peakParam[k]), ScaleFactor(peakParam[k]))
                    = peakParam[k].amp

(***************************************************************************)
(* Peaks add up                                                            *)
(***************************************************************************)
\* slot k is of a supported family other than none and has no bin range
EnabledUnrestricted(k) ==
    /\ PeakType(peakParam[k]) \in SupportedTags \ {"none"}
    /\ peakParam[k].minX = 0 /\ peakParam[k].maxX = 0
    /\ peakParam[k].minY = 0 /\ peakParam[k].maxY = 0

\* the slots with every slot but k set to type none
Alone(k) ==
    [j \in DOMAIN peakParam |->
        IF j = k THEN peakParam[j]
        ELSE [peakParam[j] EXCEPT !.type1d = "none", !.type2d = "none"]]

\* the frame computeDataT composes for the current parameters and the peak
\* slots pks
FrameOf(pks) ==
    computeDataT(p_NDArray.data, loc.dataType, ubMode, m_2d,
                 param.ADSizeX, param.ADSizeY, param.ADSPIntegrate,
                 m_needReset, BgX(param), BgY(param), pks, NoiseOf(param), NoNoise)

\* a + b in the element type T (integers modulo the type's width)
ElemSum(a, b, T) ==
    IF T \in FloatTypes THEN RAdd(a, b) ELSE R(WrapInt(RTrunc(RAdd(a, b)), T))

\* C22: with background none, noise none and integration disabled, the
\* frame composed with two enabled unrestricted peaks is, in every bin, the
\* sum in the element type of the frame composed with the first peak alone
\* and the frame composed with the second peak alone.
C22_PeaksAdd ==
    (PeaksOnly /\ EnabledUnrestricted(0) /\ EnabledUnrestricted(1)) =>
        \A bin \in DOMAIN p_NDArray.data :
            p_NDArray.data[bin] =
                ElemSum(FrameOf(Alone(0))[bin], FrameOf(Alone(1))[bin], loc.dataType)

\* two overlapping squares: bins 4 and 5 hold 3 + 5, bins 6 and 7 hold 3
C22_Witness ==
    /\ PeaksOnly /\ EnabledUnrestricted(0) /\ EnabledUnrestricted(1)
    /\ ~m_2d
    /\ peakParam[0].amp = R(3) /\ peakParam[1].amp = R(5)
    /\ p_NDArray.data[4] = R(8) /\ p_NDArray.data[5] = R(8)
    /\ p_NDArray.data[6] = R(3) /\ p_NDArray.data[3] = R(0)

(***************************************************************************)
(* Publication                                                             *)
(***************************************************************************)
\* C23: the array handed to the consumers is never the thread's own buffer:
\* whenever an array has been handed out, its handle differs from the
\* handle of the buffer the thread composes into.
C23_NeverHandsOwnBuffer ==
    (~IsNull(published) /\ ~IsNull(p_NDArray)) => published.id # p_NDArray.id

(***************************************************************************)
(* Whose bin range                                                         *)
(***************************************************************************)
\* the slots with the bin range of every slot but k removed
OthersUnrestricted(k) ==
    [j \in DOMAIN peakParam |->
        IF j = k THEN peakParam[j]
        ELSE WithRange(peakParam[j], [minX |-> 0, maxX |-> 0, minY |-> 0, maxY |-> 0])]

\* C24: the contribution of the peak in slot k does not depend on the bin
\* range configured for another slot: a frame composed from slot k alone is
\* the frame composed with the bin ranges of all other slots removed, for
\* every k.
C24_OwnRestriction ==
    PeaksOnly =>
        \A k \in DOMAIN peakParam :
            OnlyPeak(k) => p_NDArray.data = FrameOf(OthersUnrestricted(k))

(***************************************************************************)
(* Clamped bin-range boundaries                                            *)
(***************************************************************************)
\* C25: a write that changes a stored boundary stores a value inside the
\* index range of the boundary's own axis: minX and maxX in
\* [0, maxSizeX-1], minY and maxY in [0, maxSizeY-1].
C25_BoundsWithinAxis ==
    [][\A k \in DOMAIN peakParam :
          /\ peakParam'[k].minX # peakParam[k].minX =>
                 peakParam'[k].minX \in 0 .. m_maxSizeX - 1
          /\ peakParam'[k].maxX # peakParam[k].maxX =>
                 peakParam'[k].maxX \in 0 .. m_maxSizeX - 1
          /\ peakParam'[k].minY # peakParam[k].minY =>
                 peakParam'[k].minY \in 0 .. m_maxSizeY - 1
          /\ peakParam'[k].maxY # peakParam[k].maxY =>
                 peakParam'[k].maxY \in 0 .. m_maxSizeY - 1]_vars

\* the X boundaries and minY alone are stored inside their axes
C25_AllButMaxY ==
    [][\A k \in DOMAIN peakParam :
          /\ peakParam'[k].minX # peakParam[k].minX =>
                 peakParam'[k].minX \in 0 .. m_maxSizeX - 1
          /\ peakParam'[k].maxX # peakParam[k].maxX =>
                 peakParam'[k].maxX \in 0 .. m_maxSizeX - 1
          /\ peakParam'[k].minY # peakParam[k].minY =>
                 peakParam'[k].minY \in 0 .. m_maxSizeY - 1]_vars

(***************************************************************************)
(* Start and stop events across runs                                       *)
(***************************************************************************)
\* the thread has begun a run and not yet read the parameters of its first
\* iteration
RunBegins == pc = "readParams" /\ loc.imagesCounter = 0

\* C26: at the moment a run begins the stop event is not signalled.
C26_NoStaleStop == RunBegins => ~m_stopEvent

\* the thread waits for a start event and none is pending
Idle == pc = "waitStart" /\ ~m_acquiring /\ ~m_startEvent

\* C27: once Acquire = 0 has been written after the one accepted start request,
\* either a later Acquire = 1 is written or the thread eventually is idle and
\* stays idle -- also when the 0 was written before the thread woke up from
\* its wait for the start event.
C27_StopEndsRun ==
    [](hist.starts = 1 /\ param.ADAcquire = 0 => <>(param.ADAcquire = 1 \/ []Idle))

\* the same for a stop request that was accepted, i.e. written while
\* m_acquiring was true
C27_AcceptedStopEndsRun ==
    [](hist.starts = 1 /\ hist.stopReq => <>(param.ADAcquire = 1 \/ []Idle))


\* C28: a run begins only after Acquire = 1 was written since the previous
\* run ended: when the thread has just started a run, a start request was
\* written after the last run ended (or, for the first run, at all).
C28_RunNeedsNewStart == RunBegins => hist.newStart

\* C29: in a run in which a stop request was accepted, at most one frame is
\* composed after the request was accepted.
C29_OneFrameAfterStop == hist.stopReq => hist.afterStop <= 1

\* a stop request was accepted after the timed wait had timed out, one more
\* frame was composed, and the thread is waiting for the next start
C29_Witness ==
    /\ pc = "waitStart" /\ ~m_acquiring
    /\ hist.stopReq /\ hist.afterStop = 1

\* C30: with integration enabled, the first frame composed into a buffer
\* that was allocated after the first frame of the run starts from zero: with
\* the constant background 2 every bin of it is 2, whatever the pool handed
\* out.
C30_ReplacementFromZero ==
    (/\ pc = "publish" /\ ~IsNull(p_NDArray)
     /\ param.ADSPIntegrate = 1
     /\ hist.runFrames >= 2 /\ hist.bufFrames = 1)
      => \A bin \in DOMAIN p_NDArray.data : p_NDArray.data[bin] = R(2)

====
